---------------------------- MODULE Spec2Model ----------------------------
(***************************************************************************)
(* A model of the ESP32 health-tracker controller (src/src/routes/health.js)*)
(* and of the Health collection it persists to (src/src/models/Health.js). *)
(*                                                                         *)
(* JavaScript values are records [t |-> <typeof tag>, v |-> <payload>];    *)
(* JavaScript objects are functions from property names to values, where a *)
(* missing property is a name outside the DOMAIN.                          *)
(***************************************************************************)
EXTENDS Integers, Sequences, FiniteSets, TLC

VARIABLES
    now,            \* the wall clock, Date.now(), in ms
    currentStatus,  \* Firebase node health-tracker/current-status (Null if absent)
    latestHealth,   \* Firebase node health-tracker/latest-health (Null if absent)
    statusCache,    \* the module-level statusCache {data, timestamp}
    req,            \* the getStatus requests: position, captured now, response
    fill,           \* history: the upstream read behind the cache entry
    res,            \* the response of the last completed view/save/report request
    call,           \* history: that request's operation and what it was given
    measurements,   \* the Health collection, in insertion (natural) order
    saved           \* history: number of save requests accepted and persisted

vars == <<now, currentStatus, latestHealth, statusCache, req, fill, res, call,
          measurements, saved>>

firebaseVars == <<currentStatus, latestHealth>>
cacheVars == <<statusCache, req, fill>>
viewVars == <<res, call>>
storeVars == <<measurements, saved>>

-----------------------------------------------------------------------------
(* Bounds of the model *)

TickMs == 500        \* the clock advances in steps of TickMs
MaxTicks == 7        \* the clock stops at MaxTicks * TickMs
NReq == 2            \* request slots of getStatus

Procs == 1..NReq

-----------------------------------------------------------------------------
(* JavaScript values *)

Undef == [t |-> "undefined", v |-> 0]
Null == [t |-> "null", v |-> 0]
Bool(b) == [t |-> "boolean", v |-> b]
Num(n) == [t |-> "number", v |-> n]
Str(s) == [t |-> "string", v |-> s]
\* the string new Date(ms).toISOString() renders
IsoStr(ms) == [t |-> "isostring", v |-> ms]
Arr(s) == [t |-> "array", v |-> s]

IsPrim(x) == DOMAIN x = {"t", "v"}

\* ToBoolean: what `!x`, `x || y`, `x ? a : b` and Boolean(x) test
Truthy(x) ==
    IF ~IsPrim(x) THEN TRUE
    ELSE CASE x.t = "undefined" -> FALSE
           [] x.t = "null" -> FALSE
           [] x.t = "boolean" -> x.v
           [] x.t = "number" -> x.v # 0
           [] x.t = "string" -> x.v # ""
           [] OTHER -> TRUE

\* a || b
Or(a, b) == IF Truthy(a) THEN a ELSE b

\* obj.k of an object (a missing property reads undefined)
Get(obj, k) == IF k \in DOMAIN obj THEN obj[k] ELSE Undef

\* the empty object {}
EmptyObj == [k \in {} |-> Undef]

\* snapshot.val() || {}
ValOrEmpty(node) == IF Truthy(node) THEN node ELSE EmptyObj

\* {...a, ...b}: b's properties override a's
Spread(a, b) == [k \in DOMAIN a \cup DOMAIN b |-> IF k \in DOMAIN b THEN b[k] ELSE a[k]]

\* new Date(x) is a valid date for a number or an ISO string
ValidDate(x) == IsPrim(x) /\ x.t \in {"number", "isostring"}

\* new Date(x).toISOString() of a valid date
ToISOString(x) == IsoStr(x.v)

NoRes == [status |-> 0, body |-> EmptyObj]
Json(code, body) == [status |-> code, body |-> body]

-----------------------------------------------------------------------------
(* The Status Cache and getStatus *)

ttl == 2000

InitStatusCache == [data |-> Null, timestamp |-> Null]

\* the cache check of getStatus, with n the request's `now`
CacheFresh_Inclusive(n) ==
    /\ Truthy(statusCache.data)
    /\ Truthy(statusCache.timestamp)
    /\ n - statusCache.timestamp.v <= ttl

CacheFresh(n) ==
    /\ Truthy(statusCache.data)
    /\ Truthy(statusCache.timestamp)
    /\ n - statusCache.timestamp.v < ttl

\* the simplified status object built from the upstream record
StatusOf(data) ==
    [wifi |-> Bool(Truthy(Get(data, "wifi_connected"))),
     gps |-> Bool(Truthy(Get(data, "gps_valid"))),
     heartbeat |-> Bool(Truthy(Get(data, "bpm_valid"))),
     lastUpdate |-> IF Truthy(Get(data, "timestamp"))
                    THEN ToISOString(Get(data, "timestamp"))
                    ELSE IsoStr(now)]

\* new Date(data.timestamp).toISOString() throws a RangeError on an invalid date
StatusThrows(data) ==
    Truthy(Get(data, "timestamp")) /\ ~ValidDate(Get(data, "timestamp"))

OfflineStatus ==
    [wifi |-> Bool(FALSE), gps |-> Bool(FALSE), heartbeat |-> Bool(FALSE),
     lastUpdate |-> IsoStr(now)]

\* a request slot: its position, its `now`, history (reads: upstream reads
\* it issued; hit: answered from the cache; src: on a hit, when the read
\* behind the payload was issued), and its response
IdleReq == [pc |-> "idle", now |-> 0, reads |-> 0, hit |-> FALSE, src |-> 0,
            failed |-> FALSE, res |-> NoRes]

\* getStatus up to its await: the cache check, and on a miss the upstream read
GetStatusBegin(r) ==
    /\ req[r].pc \in {"idle", "done"}
    /\ IF CacheFresh(now)
       THEN req' = [req EXCEPT ![r] =
                       [pc |-> "done", now |-> now, reads |-> 0, hit |-> TRUE,
                        src |-> fill.issued, failed |-> FALSE,
                        res |-> Json(200, [data |-> statusCache.data])]]
       ELSE req' = [req EXCEPT ![r] =
                       [pc |-> "await", now |-> now, reads |-> 1, hit |-> FALSE,
                        src |-> 0, failed |-> FALSE, res |-> NoRes]]
    /\ UNCHANGED <<now, firebaseVars, statusCache, fill, viewVars, storeVars>>

\* a variant whose catch block issues the upstream read once more before
\* giving up
GetStatusCatch_Retry(r) ==
    IF req[r].reads < 2
    THEN /\ req' = [req EXCEPT ![r].reads = @ + 1]
         /\ UNCHANGED <<statusCache, fill>>
    ELSE /\ statusCache' = [data |-> OfflineStatus, timestamp |-> Num(now)]
         /\ req' = [req EXCEPT ![r].pc = "done", ![r].failed = TRUE,
                               ![r].res = Json(200, [data |-> OfflineStatus])]
         /\ fill' = [kind |-> "offline", at |-> now, issued |-> now,
                     overwroteNewer |-> FALSE, data |-> OfflineStatus]

\* the catch block of getStatus: the offline status is cached and returned
GetStatusCatch(r) ==
    /\ statusCache' = [data |-> OfflineStatus, timestamp |-> Num(now)]
    /\ req' = [req EXCEPT ![r].pc = "done", ![r].failed = TRUE,
                          ![r].res = Json(200, [data |-> OfflineStatus])]
    /\ fill' = [kind |-> "offline", at |-> now, issued |-> now,
                overwroteNewer |-> FALSE, data |-> OfflineStatus]

\* a variant stamping the entry when the read completes
FreshTimestamp_AtCompletion(r) == Num(now)

\* the timestamp the success path stores: the `now` taken before the read
FreshTimestamp(r) == Num(req[r].now)

\* the upstream read resolves: getStatus after its await
GetStatusResolve(r) ==
    /\ req[r].pc = "await"
    /\ LET data == ValOrEmpty(currentStatus) IN
       IF StatusThrows(data)
       THEN GetStatusCatch(r)
       ELSE /\ statusCache' = [data |-> StatusOf(data), timestamp |-> FreshTimestamp(r)]
            /\ req' = [req EXCEPT ![r].pc = "done",
                                  ![r].res = Json(200, [data |-> StatusOf(data)])]
            /\ fill' = [kind |-> "fresh", at |-> now, issued |-> req[r].now,
                        overwroteNewer |-> fill.issued > req[r].now,
                        data |-> StatusOf(data)]
    /\ UNCHANGED <<now, firebaseVars, viewVars, storeVars>>

\* the upstream read rejects
GetStatusReject(r) ==
    /\ req[r].pc = "await"
    /\ GetStatusCatch(r)
    /\ UNCHANGED <<now, firebaseVars, viewVars, storeVars>>

-----------------------------------------------------------------------------
(* The environment: the clock and the device writing to Firebase *)

Tick ==
    /\ now + TickMs <= MaxTicks * TickMs
    /\ now' = now + TickMs
    /\ UNCHANGED <<firebaseVars, cacheVars, viewVars, storeVars>>

\* the records the device writes to current-status while getStatus is polled
CacheStatusRecords ==
    { Null,
      [wifi_connected |-> Bool(TRUE), gps_valid |-> Bool(TRUE),
       bpm_valid |-> Bool(TRUE), timestamp |-> Num(TickMs)],
      [wifi_connected |-> Num(1), gps_valid |-> Bool(FALSE)],
      [wifi_connected |-> Bool(TRUE), timestamp |-> Str("not a date")] }

DeviceWriteStatus(records) ==
    /\ \E rec \in records : currentStatus' = rec /\ rec # currentStatus
    /\ UNCHANGED <<now, latestHealth, cacheVars, viewVars, storeVars>>

NoCall == [op |-> "none"]

NoFill == [kind |-> "none", at |-> 0, issued |-> 0, overwroteNewer |-> FALSE,
           data |-> EmptyObj]

InitCommon ==
    /\ now = TickMs
    /\ currentStatus = Null
    /\ latestHealth = Null
    /\ statusCache = InitStatusCache
    /\ req = [r \in Procs |-> IdleReq]
    /\ fill = NoFill
    /\ res = NoRes
    /\ call = NoCall
    /\ measurements = <<>>
    /\ saved = 0

\* Sequential status requests: one request at a time, any upstream latency
CacheDevice == DeviceWriteStatus(CacheStatusRecords)

NextSeq ==
    \/ GetStatusBegin(1)
    \/ GetStatusResolve(1)
    \/ GetStatusReject(1)
    \/ Tick
    \/ CacheDevice

SpecSeq == InitCommon /\ [][NextSeq]_vars

\* Concurrent status requests: each slot carries one request, the requests
\* starting in the order of their slots and overlapping in any way
GetStatusOnce(r) ==
    /\ req[r].pc = "idle"
    /\ \A q \in Procs : q < r => req[q].pc # "idle"
    /\ GetStatusBegin(r)

\* the records the device writes while requests overlap (a failing read is
\* a rejected one)
ConcStatusRecords ==
    { Null,
      [wifi_connected |-> Num(1), gps_valid |-> Bool(TRUE),
       bpm_valid |-> Bool(TRUE), timestamp |-> Num(TickMs)] }

ConcDevice == DeviceWriteStatus(ConcStatusRecords)

NextConc ==
    \/ \E r \in Procs : GetStatusOnce(r)
    \/ \E r \in Procs : GetStatusResolve(r)
    \/ \E r \in Procs : GetStatusReject(r)
    \/ Tick
    \/ ConcDevice

SpecConc == InitCommon /\ [][NextConc]_vars

\* A polling client, whose requests follow one another in slot 1, overlapped
\* from its first request on by the single requests of the other slots
NextOverlap ==
    \/ GetStatusBegin(1)
    \/ \E r \in Procs \ {1} : GetStatusOnce(r)
    \/ \E r \in Procs : GetStatusResolve(r)
    \/ \E r \in Procs : GetStatusReject(r)
    \/ Tick
    \/ ConcDevice

SpecOverlap == InitCommon /\ [][NextOverlap]_vars


-----------------------------------------------------------------------------
(* Helper functions for health status analysis *)

\* a variant whose Normal band excludes 100
getHeartRateStatus_HalfOpen(bpm) ==
    IF ~Truthy(bpm) \/ bpm = Num(0) THEN Str("No Signal")
    ELSE IF bpm.v < 60 THEN Str("Slow")
    ELSE IF bpm.v >= 60 /\ bpm.v < 100 THEN Str("Normal")
    ELSE IF bpm.v >= 100 /\ bpm.v <= 140 THEN Str("Elevated")
    ELSE Str("High")

getHeartRateStatus(bpm) ==
    IF ~Truthy(bpm) \/ bpm = Num(0) THEN Str("No Signal")
    ELSE IF bpm.v < 60 THEN Str("Slow")
    ELSE IF bpm.v >= 60 /\ bpm.v <= 100 THEN Str("Normal")
    ELSE IF bpm.v > 100 /\ bpm.v <= 140 THEN Str("Elevated")
    ELSE Str("High")

getHeartRateZone(bpm) ==
    IF ~Truthy(bpm) \/ bpm = Num(0) THEN Str("No Signal")
    ELSE IF bpm.v < 60 THEN Str("Resting")
    ELSE IF bpm.v < 100 THEN Str("Normal")
    ELSE IF bpm.v < 140 THEN Str("Light Exercise")
    ELSE IF bpm.v < 170 THEN Str("Moderate Exercise")
    ELSE Str("Intense Exercise")

getPulseSignalStatus(pulseValue) ==
    IF ~Truthy(pulseValue) THEN Str("No Signal")
    ELSE IF pulseValue.v < 1000 THEN Str("Very Weak")
    ELSE IF pulseValue.v < 2000 THEN Str("Weak")
    ELSE IF pulseValue.v < 3000 THEN Str("Normal")
    ELSE IF pulseValue.v < 4000 THEN Str("Strong")
    ELSE Str("Very Strong")

-----------------------------------------------------------------------------
(* Blood pressure prediction, in exact rational arithmetic *)

Max(a, b) == IF a >= b THEN a ELSE b
Abs(a) == IF a >= 0 THEN a ELSE -a

RECURSIVE GCD(_, _)
GCD(a, b) == IF b = 0 THEN a ELSE GCD(b, a % b)

\* the number n/d (d > 0): an integer, or a fraction in lowest terms
Frac(n, d) ==
    LET g == GCD(Abs(n), d) IN
    IF d \div g = 1 THEN Num(n \div g)
    ELSE [t |-> "fraction", v |-> <<n \div g, d \div g>>]

\* Math.round(n/d), d > 0: the nearest integer, halves rounded up
Round(n, d) == (2 * n + d) \div (2 * d)

\* a default parameter value applies to an undefined argument
Param(x, dflt) == IF x = Undef THEN dflt ELSE x

baseSystolic == 120
baseDiastolic == 80

\* a variant in which the estimate falls as the heart rate rises
HrFactor_Falling(heartRate, height) == (70 - heartRate) * 10 * height * height

\* hrFactor over the common denominator 20 * height^2
HrFactor(heartRate, height) == (heartRate - 70) * 10 * height * height

predictBloodPressure(heartRate, ageArg, isMaleArg, weightArg, heightArg) ==
    LET age == Param(ageArg, Num(30)).v
        isMale == Param(isMaleArg, Bool(TRUE))
        weight == Param(weightArg, Num(70)).v
        height == Param(heightArg, Num(170)).v
    IN
    IF ~Truthy(heartRate) \/ heartRate.v < 30 \/ heartRate.v > 220
    THEN [systolic |-> Num(0), diastolic |-> Num(0), valid |-> Bool(FALSE),
          message |-> Str("Invalid heart rate")]
    ELSE
      LET \* every term over the common denominator D = 20 * height^2
          D == 20 * height * height
          hrFactor == HrFactor(heartRate.v, height)
          ageFactor == Max(0, (age - 30) * 6 * height * height)
          bmiFactor == Max(0, (weight * 10000 - 25 * height * height) * 10)
          genderFactor == IF Truthy(isMale) THEN 2 ELSE 0
          systolic == Round(baseSystolic * D + hrFactor + ageFactor + bmiFactor
                            + genderFactor * D, D)
          diastolic == Round(baseDiastolic * 2 * D + hrFactor + ageFactor + bmiFactor,
                             2 * D)
          category ==
              IF systolic < 120 /\ diastolic < 80 THEN "Normal"
              ELSE IF systolic < 130 /\ diastolic < 80 THEN "Elevated"
              ELSE IF systolic < 140 \/ diastolic < 90 THEN "Stage 1 Hypertension"
              ELSE "Stage 2 Hypertension"
      IN [systolic |-> Num(systolic), diastolic |-> Num(diastolic),
          category |-> Str(category), valid |-> Bool(TRUE),
          confidence |-> Str("Low"),
          factors |-> [heartRateFactor |-> Frac(hrFactor, D),
                       ageFactor |-> Frac(ageFactor, D),
                       bmiFactor |-> Frac(bmiFactor, D),
                       genderFactor |-> Num(genderFactor)]]

-----------------------------------------------------------------------------
(* The helper functions applied to inputs of their whole domain *)

MaxBpm == 230        \* heart rates run from -1 to MaxBpm

HeartRates == {Num(n) : n \in -1 .. MaxBpm}
FalsyInputs == {Undef, Null, Bool(FALSE), Str("")}

\* both classifiers applied to one input; a behaviour applies one helper
\* once
ClassifyHeartRate ==
    /\ call = NoCall
    /\ \E bpm \in HeartRates \cup FalsyInputs :
          /\ call' = [op |-> "classify", bpm |-> bpm]
          /\ res' = Json(0, [status |-> getHeartRateStatus(bpm),
                             zone |-> getHeartRateZone(bpm)])
    /\ UNCHANGED <<now, firebaseVars, cacheVars, storeVars>>

\* user profiles, a field left out taking the parameter's default value
Profiles ==
    {[age |-> a, isMale |-> m, weight |-> w, height |-> h] :
        a \in {Undef, Num(25), Num(63)}, m \in {Undef, Bool(FALSE)},
        w \in {Undef, Num(90)}, h \in {Undef, Num(180)}}

\* the estimate for a heart rate and for the heart rate 10 above it, the
\* profile held fixed
PredictBloodPressure ==
    /\ call = NoCall
    /\ \E heartRate \in HeartRates \cup {Undef}, p \in Profiles :
          LET predict(h) == predictBloodPressure(h, p.age, p.isMale, p.weight, p.height)
              plus10 == IF heartRate.t = "number" THEN Num(heartRate.v + 10) ELSE Num(10)
          IN /\ call' = [op |-> "predictBloodPressure", heartRate |-> heartRate,
                         profile |-> p]
             /\ res' = Json(0, [at |-> predict(heartRate), plus10 |-> predict(plus10)])
    /\ UNCHANGED <<now, firebaseVars, cacheVars, storeVars>>

NextHelpers == ClassifyHeartRate \/ PredictBloodPressure

SpecHelpers == InitCommon /\ [][NextHelpers]_vars

-----------------------------------------------------------------------------
(* The telemetry views: getLatestData, getHealthData, getCombinedData.     *)
(* Each awaits its upstream reads once and then answers, so each is one    *)
(* step; `failed` says whether the awaited read rejected.                  *)

\* the default data structure of getLatestData
LatestDefaultData ==
    [latitude |-> Num(0), longitude |-> Num(0), gps_valid |-> Bool(FALSE),
     timestamp |-> IsoStr(now), wifi_connected |-> Bool(FALSE),
     firebase_ready |-> Bool(FALSE), last_update |-> Num(now)]

LatestResponseData_NoFallback(data) == Spread(LatestDefaultData, data)

\* responseData of getLatestData
LatestResponseData(data) ==
    Spread(Spread(LatestDefaultData, data),
           [timestamp |-> Or(Get(data, "timestamp"), LatestDefaultData.timestamp),
            last_update |-> Or(Get(data, "last_update"), LatestDefaultData.last_update)])

GetLatestData ==
    /\ \E failed \in BOOLEAN :
          /\ call' = [op |-> "getLatestData", failed |-> failed,
                      status |-> currentStatus, health |-> Null]
          /\ res' = IF failed
                    THEN Json(200, [data |-> LatestDefaultData])
                    ELSE Json(200, [data |-> LatestResponseData(ValOrEmpty(currentStatus))])
    /\ UNCHANGED <<now, firebaseVars, cacheVars, storeVars>>

DefaultUserProfile ==
    [age |-> Num(30), isMale |-> Bool(TRUE), weight |-> Num(70), height |-> Num(170)]

HeartRateOf_Nullish(healthData, statusData) ==
    IF Get(healthData, "bpm").t \notin {"undefined", "null"} THEN Get(healthData, "bpm")
    ELSE IF Get(statusData, "bpm").t \notin {"undefined", "null"} THEN Get(statusData, "bpm")
    ELSE Num(0)

\* the heart rate getHealthData reports
HeartRateOf(healthData, statusData) ==
    Or(Or(Get(healthData, "bpm"), Get(statusData, "bpm")), Num(0))

\* healthResponse of getHealthData
HealthResponse(statusData, healthData) ==
    LET heartRate == HeartRateOf(healthData, statusData)
        userProfile == Or(Get(healthData, "userProfile"), DefaultUserProfile)
        bloodPressure == predictBloodPressure(heartRate,
                                              Get(userProfile, "age"),
                                              Get(userProfile, "isMale"),
                                              Get(userProfile, "weight"),
                                              Get(userProfile, "height"))
        pulse == Or(Get(healthData, "pulse_value"), Get(statusData, "pulse_value"))
    IN [heartRate |->
            [bpm |-> heartRate,
             valid |-> Or(Or(Get(healthData, "valid_bpm"), Get(statusData, "bpm_valid")),
                          Bool(FALSE)),
             status |-> getHeartRateStatus(heartRate),
             zone |-> getHeartRateZone(heartRate)],
        bloodPressure |->
            Spread(bloodPressure,
                   [lastUpdated |-> IsoStr(now),
                    note |-> Str("Estimated based on heart rate and user profile")]),
        pulse |->
            [value |-> Or(pulse, Num(0)),
             threshold |-> Num(3300),
             signal |-> getPulseSignalStatus(pulse)],
        waveform |-> Or(Get(healthData, "waveform"), Arr(<<>>)),
        timestamp |-> Or(Or(Get(statusData, "timestamp"), Get(healthData, "timestamp")),
                         IsoStr(now)),
        last_update |-> Or(Get(statusData, "last_update"), Num(now)),
        device |-> Or(Get(statusData, "device"), Str("ESP32_Health_Tracker")),
        healthId |-> Or(Get(healthData, "health_id"), Str("current"))]

\* the response of the catch block of getHealthData
HealthOfflineResponse ==
    [heartRate |->
         [bpm |-> Num(0), valid |-> Bool(FALSE), status |-> Str("No Signal"),
          zone |-> Str("No Signal")],
     bloodPressure |->
         [systolic |-> Num(0), diastolic |-> Num(0), valid |-> Bool(FALSE),
          message |-> Str("No data available")],
     pulse |-> [value |-> Num(0), threshold |-> Num(3300), signal |-> Str("No Signal")],
     waveform |-> Arr(<<>>),
     timestamp |-> IsoStr(now),
     last_update |-> Num(now),
     device |-> Str("ESP32_Health_Tracker"),
     healthId |-> Str("offline")]

GetHealthData ==
    /\ \E failed \in BOOLEAN :
          /\ call' = [op |-> "getHealthData", failed |-> failed,
                      status |-> currentStatus, health |-> latestHealth]
          /\ res' = IF failed
                    THEN Json(200, [data |-> HealthOfflineResponse])
                    ELSE Json(200, [data |-> HealthResponse(ValOrEmpty(currentStatus),
                                                            ValOrEmpty(latestHealth))])
    /\ UNCHANGED <<now, firebaseVars, cacheVars, storeVars>>

CombinedNotFound_EitherAbsent(statusData, healthData) ==
    ~Truthy(statusData) \/ ~Truthy(healthData)

\* the not-found test of getCombinedData
CombinedNotFound(statusData, healthData) == ~Truthy(statusData)

\* combinedData of getCombinedData
CombinedData(statusData, healthData) ==
    [gps |->
        IF Truthy(Get(statusData, "gps_valid"))
        THEN [latitude |-> Get(statusData, "latitude"),
              longitude |-> Get(statusData, "longitude"),
              valid |-> Get(statusData, "gps_valid"),
              timestamp |-> Get(statusData, "timestamp")]
        ELSE [valid |-> Bool(FALSE), message |-> Str("GPS signal not available")],
     heartbeat |->
        IF Truthy(healthData)
        THEN [bpm |-> Or(Get(healthData, "bpm"), Num(0)),
              valid |-> Or(Get(healthData, "valid_bpm"), Bool(FALSE)),
              status |-> getHeartRateStatus(Get(healthData, "bpm")),
              zone |-> getHeartRateZone(Get(healthData, "bpm")),
              pulseValue |-> Or(Get(healthData, "pulse_value"), Num(0)),
              waveform |-> Or(Get(healthData, "waveform"), Arr(<<>>))]
        ELSE [valid |-> Bool(FALSE), message |-> Str("Heartbeat data not available")],
     system |->
        [wifi |-> Get(statusData, "wifi_connected"),
         firebase |-> Get(statusData, "firebase_ready"),
         device |-> Or(Get(statusData, "device"), Str("ESP32_Health_Tracker")),
         timestamp |-> Get(statusData, "timestamp")]]

GetCombinedData ==
    /\ \E failed \in BOOLEAN :
          /\ call' = [op |-> "getCombinedData", failed |-> failed,
                      status |-> currentStatus, health |-> latestHealth]
          /\ res' = IF failed
                    THEN Json(500, [message |-> Str("Error fetching combined data")])
                    ELSE IF CombinedNotFound(currentStatus, latestHealth)
                    THEN Json(404, [message |-> Str("No ESP32 data found")])
                    ELSE Json(200, [data |-> CombinedData(currentStatus, latestHealth)])
    /\ UNCHANGED <<now, firebaseVars, cacheVars, storeVars>>

\* the records the device writes to current-status
ViewStatusRecords ==
    { Null,
      [gps_valid |-> Bool(TRUE), latitude |-> Num(12)],
      [latitude |-> Num(6), longitude |-> Num(79), gps_valid |-> Bool(TRUE),
       wifi_connected |-> Bool(TRUE), firebase_ready |-> Bool(TRUE),
       timestamp |-> Num(1700), last_update |-> Num(1800),
       device |-> Str("ESP32_Watch"), bpm |-> Num(75), bpm_valid |-> Bool(TRUE),
       pulse_value |-> Num(3500)],
      [gps_valid |-> Bool(FALSE), wifi_connected |-> Bool(TRUE),
       timestamp |-> Num(0), last_update |-> Num(0), bpm |-> Num(75)],
      [gps_valid |-> Num(0), latitude |-> Num(6), longitude |-> Num(79),
       timestamp |-> Str(""), bpm |-> Num(230)],
      [wifi_connected |-> Bool(FALSE), firebase_ready |-> Bool(TRUE),
       timestamp |-> IsoStr(1700), bpm_valid |-> Bool(TRUE)] }

\* the records the device writes to latest-health
ViewHealthRecords ==
    { Null,
      [bpm |-> Num(0), valid_bpm |-> Bool(FALSE)],
      [bpm |-> Num(72), valid_bpm |-> Bool(TRUE), pulse_value |-> Num(3400),
       waveform |-> Arr(<<3300, 3400, 3500>>), health_id |-> Str("h1"),
       timestamp |-> Num(1600)],
      [bpm |-> Num(96),
       userProfile |-> [age |-> Num(45), isMale |-> Bool(FALSE),
                        weight |-> Num(90), height |-> Num(170)]],
      [bpm |-> Num(25), pulse_value |-> Num(900)],
      [pulse_value |-> Num(2500), userProfile |-> [age |-> Num(63)]] }

DeviceWriteHealth(records) ==
    /\ \E rec \in records : latestHealth' = rec /\ rec # latestHealth
    /\ UNCHANGED <<now, currentStatus, cacheVars, viewVars, storeVars>>

ViewStatusDevice == DeviceWriteStatus(ViewStatusRecords)
ViewHealthDevice == DeviceWriteHealth(ViewHealthRecords)

NextViews ==
    \/ GetLatestData
    \/ GetHealthData
    \/ GetCombinedData
    \/ ViewStatusDevice
    \/ ViewHealthDevice

SpecViews == InitCommon /\ [][NextViews]_vars

-----------------------------------------------------------------------------
(* The Health collection: saveMeasurement and getWeeklyReport *)

MaxMeasurements == 3   \* documents the collection holds at most
MaxHalfDays == 2       \* half-day steps of the clock within one week

DayMs == 24 * 60 * 60 * 1000
HalfDayMs == DayMs \div 2

\* a Date holding the instant ms
DateOf(ms) == [t |-> "date", v |-> ms]

\* req.user._id || req.user.id
UserIdOf(user) == Or(Get(user, "_id"), Get(user, "id"))

MissingRequiredFields_UndefinedOnly(body) ==
    \/ Get(body, "heartRate") = Undef
    \/ Get(body, "systolic") = Undef
    \/ Get(body, "diastolic") = Undef

\* !heartRate || !systolic || !diastolic
MissingRequiredFields(body) ==
    \/ ~Truthy(Get(body, "heartRate"))
    \/ ~Truthy(Get(body, "systolic"))
    \/ ~Truthy(Get(body, "diastolic"))

\* new Health({...}) of saveMeasurement
NewMeasurement(userId, body) ==
    [user |-> userId,
     heartRate |-> Get(body, "heartRate"),
     systolic |-> Get(body, "systolic"),
     diastolic |-> Get(body, "diastolic"),
     timestamp |-> DateOf(now)]

\* the schema's validation on save: user is a required ObjectId, the three
\* readings are required Numbers
HealthSchemaValid(doc) ==
    /\ doc.user.t = "string" /\ doc.user.v # ""
    /\ doc.heartRate.t = "number"
    /\ doc.systolic.t = "number"
    /\ doc.diastolic.t = "number"

\* saveMeasurement for one request; storeUp says whether MongoDB answers
SaveMeasurement(requests) ==
    /\ Len(measurements) < MaxMeasurements
    /\ \E rq \in requests, storeUp \in BOOLEAN :
        LET \* history: the request passes the handler's checks ...
            accepted == /\ rq.user # Undef
                        /\ Truthy(Get(rq.body, "heartRate"))
                        /\ Truthy(Get(rq.body, "systolic"))
                        /\ Truthy(Get(rq.body, "diastolic"))
            \* ... and the store takes the document
            persists == /\ storeUp
                        /\ rq.user # Undef
                        /\ HealthSchemaValid(NewMeasurement(UserIdOf(rq.user), rq.body))
        IN
        /\ call' = [op |-> "saveMeasurement", user |-> rq.user, body |-> rq.body,
                    storeUp |-> storeUp, now |-> now, before |-> measurements]
        /\ IF rq.user = Undef
           THEN \* req.user._id throws a TypeError: the catch block
                /\ res' = Json(500, [message |-> Str("Error saving measurement")])
                /\ UNCHANGED measurements
           ELSE IF MissingRequiredFields(rq.body)
           THEN /\ res' = Json(400, [message |-> Str("Missing required fields")])
                /\ UNCHANGED measurements
           ELSE LET measurement == NewMeasurement(UserIdOf(rq.user), rq.body) IN
                IF HealthSchemaValid(measurement) /\ storeUp
                THEN /\ measurements' = Append(measurements, measurement)
                     /\ res' = Json(200, [success |-> Bool(TRUE),
                                          measurement |-> measurement])
                ELSE \* measurement.save() rejects: the catch block
                     /\ res' = Json(500, [message |-> Str("Error saving measurement")])
                     /\ UNCHANGED measurements
        /\ saved' = IF accepted /\ persists THEN saved + 1 ELSE saved
    /\ UNCHANGED <<now, firebaseVars, cacheVars>>

WindowDays == 6

\* sevenDaysAgo: the current instant moved back six calendar days
SevenDaysAgo == now - WindowDays * DayMs

\* $dateToString with format %Y-%m-%d: the calendar day of a Date
DateToString(date) == [t |-> "daystring", v |-> date.v \div DayMs]

\* the $match stage
Match(userId) ==
    SelectSeq(measurements,
              LAMBDA m : m.user = userId /\ m.timestamp.v >= SevenDaysAgo)

\* the $group stage: the documents folded in order into one accumulator per day
RECURSIVE Group(_, _)
Group(docs, acc) ==
    IF docs = <<>> THEN acc
    ELSE LET m == Head(docs)
             id == DateToString(m.timestamp)
             old == IF \E g \in acc : g._id = id
                    THEN CHOOSE g \in acc : g._id = id
                    ELSE [_id |-> id, n |-> 0, heartRate |-> 0, systolic |-> 0,
                          diastolic |-> 0, date |-> m.timestamp]
             new == [old EXCEPT !.n = @ + 1,
                                !.heartRate = @ + m.heartRate.v,
                                !.systolic = @ + m.systolic.v,
                                !.diastolic = @ + m.diastolic.v]
         IN Group(Tail(docs), (acc \ {old}) \cup {new})

\* $avg of each accumulator
Averages(g) ==
    [_id |-> g._id,
     avgHeartRate |-> Frac(g.heartRate, g.n),
     avgSystolic |-> Frac(g.systolic, g.n),
     avgDiastolic |-> Frac(g.diastolic, g.n),
     date |-> g.date]

SortKey_Descending(e) == 0 - e.date.v

\* the key of the $sort stage, { date: 1 }
SortKey(e) == e.date.v

RECURSIVE Sort(_)
Sort(entries) ==
    IF entries = {} THEN <<>>
    ELSE LET first == CHOOSE e \in entries :
                          \A o \in entries : SortKey(e) <= SortKey(o)
         IN <<first>> \o Sort(entries \ {first})

\* the aggregation pipeline of getWeeklyReport
Aggregate(userId) == Sort({ Averages(g) : g \in Group(Match(userId), {}) })

GetWeeklyReport(users) ==
    /\ \E user \in users, storeUp \in BOOLEAN :
        /\ call' = [op |-> "getWeeklyReport", user |-> user, body |-> EmptyObj,
                    storeUp |-> storeUp, now |-> now, before |-> measurements]
        /\ IF user = Undef
           THEN \* req.user._id throws a TypeError: the catch block
                res' = Json(500, [message |-> Str("Error fetching weekly report")])
           ELSE IF ~Truthy(UserIdOf(user))
           THEN res' = Json(400, [message |-> Str("User ID not found")])
           ELSE IF storeUp
           THEN res' = Json(200, Arr(Aggregate(UserIdOf(user))))
           ELSE res' = Json(500, [message |-> Str("Error fetching weekly report")])
    /\ UNCHANGED <<now, firebaseVars, cacheVars, storeVars>>

\* the clock of the reports: half a day at a time, and a week's window at once
TickHalfDay ==
    /\ (now \div HalfDayMs) % (2 * WindowDays) < MaxHalfDays
    /\ now' = now + HalfDayMs
    /\ UNCHANGED <<firebaseVars, cacheVars, viewVars, storeVars>>

TickWindow ==
    /\ now < WindowDays * DayMs
    /\ now' = now + WindowDays * DayMs
    /\ UNCHANGED <<firebaseVars, cacheVars, viewVars, storeVars>>

\* what the auth middleware may leave in req.user
User1 == [_id |-> Str("u1")]
User2 == [id |-> Str("u2")]
AnyUsers == {Undef, EmptyObj, User1, User2}

\* request bodies: the reference readings, and bodies with a reading that is
\* 0, missing, or not a number
Reading(h, s, d) == [heartRate |-> Num(h), systolic |-> Num(s), diastolic |-> Num(d)]
ReferenceBodies == {Reading(70, 120, 80), Reading(74, 122, 82), Reading(80, 125, 85)}
BadBodies ==
    { Reading(0, 120, 80),
      [heartRate |-> Num(70), diastolic |-> Num(80)],
      [heartRate |-> Num(70), systolic |-> Num(120), diastolic |-> Str("")],
      [heartRate |-> Str("fast"), systolic |-> Num(120), diastolic |-> Num(80)] }

AnySaveRequests ==
    { [user |-> u, body |-> b] :
        u \in AnyUsers, b \in {Reading(70, 120, 80)} \cup BadBodies }

SaveAny == SaveMeasurement(AnySaveRequests)
ReportAny == GetWeeklyReport(AnyUsers)

NextSave ==
    \/ SaveAny
    \/ ReportAny
    \/ TickHalfDay

SpecSave == InitCommon /\ [][NextSave]_vars

\* the saves that fill the collection the reports are read from
ValidSaveRequests ==
    { [user |-> User1, body |-> b] : b \in ReferenceBodies }
        \cup {[user |-> User2, body |-> Reading(80, 125, 85)]}

SaveValid == SaveMeasurement(ValidSaveRequests)
ReportValid == GetWeeklyReport({User1, User2})

NextReport ==
    \/ SaveValid
    \/ ReportValid
    \/ TickHalfDay
    \/ TickWindow

SpecReport == InitCommon /\ [][NextReport]_vars

-----------------------------------------------------------------------------
(* The Reading Validator: validateHeartRate *)

\* a && b
And(a, b) == IF Truthy(a) THEN b ELSE a

\* x >= n and x <= n of a number; undefined compares as NaN, which is false
Ge(x, n) == x.t = "number" /\ x.v >= n
Le(x, n) == x.t = "number" /\ x.v <= n

\* data.waveform.length
LengthOf(arr) == Num(Len(arr.v))

WaveformCheck_Strict(data) ==
    And(Get(data, "waveform"),
        Bool(Get(data, "waveform").t = "array"
             /\ LengthOf(Get(data, "waveform")).v > 10))

\* validation.waveform.valid
WaveformCheck(data) ==
    And(Get(data, "waveform"),
        Bool(Get(data, "waveform").t = "array"
             /\ Ge(LengthOf(Get(data, "waveform")), 10)))

WaveformLength(data) ==
    IF Truthy(Get(data, "waveform")) THEN LengthOf(Get(data, "waveform")) ELSE Num(0)

\* the validation object of validateHeartRate
ValidationOf(data) ==
    [pulseValue |->
        [valid |-> Bool(Ge(Get(data, "pulse_value"), 500)
                        /\ Le(Get(data, "pulse_value"), 8000)),
         value |-> Get(data, "pulse_value"),
         range |-> Str("500-8000")],
     heartRate |->
        [valid |-> And(Bool(Ge(Get(data, "bpm"), 30) /\ Le(Get(data, "bpm"), 220)),
                       Get(data, "valid_bpm")),
         value |-> Get(data, "bpm"),
         range |-> Str("30-220 BPM")],
     waveform |->
        [valid |-> WaveformCheck(data),
         length |-> WaveformLength(data),
         required |-> Num(10)],
     signalQuality |->
        [valid |-> Bool(Ge(Get(data, "pulse_value"), 500)
                        /\ Le(Get(data, "pulse_value"), 8000)),
         value |-> Get(data, "pulse_value"),
         range |-> Str("500-8000")]]

\* Object.values(validation).every(v => v.valid)
IsValid(validation) == \A k \in DOMAIN validation : Truthy(validation[k].valid)

ValidateHeartRate ==
    /\ \E failed \in BOOLEAN :
          /\ call' = [op |-> "validateHeartRate", failed |-> failed,
                      status |-> Null, health |-> latestHealth]
          /\ res' =
               IF failed
               THEN Json(500, [valid |-> Bool(FALSE),
                               message |-> Str("Error validating heart rate")])
               ELSE IF ~Truthy(latestHealth)
               THEN Json(404, [valid |-> Bool(FALSE),
                               message |-> Str("No heartbeat data found"),
                               reason |-> Str("No data available")])
               ELSE LET validation == ValidationOf(latestHealth)
                        isValid == IsValid(validation)
                    IN Json(200,
                            [valid |-> Bool(isValid),
                             message |-> IF isValid
                                         THEN Str("Heart rate validation passed")
                                         ELSE Str("Heart rate validation failed"),
                             validation |-> validation,
                             data |-> [bpm |-> Get(latestHealth, "bpm"),
                                       pulseValue |-> Get(latestHealth, "pulse_value"),
                                       waveformLength |-> WaveformLength(latestHealth),
                                       timestamp |-> Get(latestHealth, "timestamp")]])
    /\ UNCHANGED <<now, firebaseVars, cacheVars, storeVars>>

\* a waveform of n samples
Waveform(n) == Arr([i \in 1..n |-> 3300])

\* a record within every range
GoodHealthRecord ==
    [pulse_value |-> Num(500), bpm |-> Num(30), valid_bpm |-> Bool(TRUE),
     waveform |-> Waveform(10)]

\* the records the device writes to latest-health: each field absent, failing
\* or passing its check, and the good record with one field at another limit
ValidatedHealthRecords ==
    ({ Spread(Spread(p, b), Spread(f, w)) :
         p \in {EmptyObj, [pulse_value |-> Num(499)], [pulse_value |-> Num(500)]},
         b \in {EmptyObj, [bpm |-> Num(221)], [bpm |-> Num(30)]},
         f \in {EmptyObj, [valid_bpm |-> Bool(FALSE)], [valid_bpm |-> Bool(TRUE)]},
         w \in {EmptyObj, [waveform |-> Waveform(9)], [waveform |-> Waveform(10)]} }
       \ {EmptyObj})
    \cup { Spread(GoodHealthRecord, x) :
             x \in {[pulse_value |-> Num(8000)], [pulse_value |-> Num(8001)],
                    [bpm |-> Num(29)], [bpm |-> Num(220)],
                    [valid_bpm |-> Num(1)], [waveform |-> Waveform(0)]} }

ValidatedHealthDevice == DeviceWriteHealth({Null} \cup ValidatedHealthRecords)

NextValidate ==
    \/ ValidateHeartRate
    \/ ValidatedHealthDevice

SpecValidate == InitCommon /\ [][NextValidate]_vars

-----------------------------------------------------------------------------
(* Claims about the Status Cache, checked under SpecSeq *)

\* C1: a status request started within ttl of the completion of the last
\* successful upstream read is served from the cache (the identical payload,
\* no upstream read), and a request served from the cache started less than
\* ttl after that read; this for every upstream latency.
C1_HitWithinTtlOfSuccessfulRead ==
    LET q == req[1] IN
    /\ (q.pc = "await" /\ fill.kind = "fresh") => q.now - fill.at >= ttl
    /\ (q.pc = "done" /\ q.hit /\ fill.kind = "fresh") =>
          /\ q.res.body.data = fill.data
          /\ q.reads = 0
          /\ q.now - fill.at < ttl

\* C2: a failed upstream read is answered with status 200 and the offline
\* status, which becomes the cache entry; until ttl has elapsed since the
\* failure every request is answered with that same offline status without an
\* upstream read, and a request at or after expiry reads upstream.
C2_OfflineStatusCachedUntilExpiry ==
    LET q == req[1] IN
    /\ q.pc = "done" => q.res.status = 200
    /\ (q.pc = "done" /\ q.failed) =>
          /\ q.res.body.data.wifi = Bool(FALSE)
          /\ q.res.body.data.gps = Bool(FALSE)
          /\ q.res.body.data.heartbeat = Bool(FALSE)
          /\ statusCache = [data |-> q.res.body.data, timestamp |-> Num(fill.at)]
    /\ (q.pc = "await" /\ fill.kind = "offline") => q.now - fill.at >= ttl
    /\ (q.pc = "done" /\ q.hit /\ fill.kind = "offline") =>
          /\ q.res.body.data = fill.data
          /\ q.reads = 0
          /\ q.now - fill.at < ttl

\* a later request is answered from the cache with the offline status
C2_Witness ==
    LET q == req[1] IN
    /\ q.pc = "done" /\ q.hit /\ fill.kind = "offline"
    /\ q.now > fill.at
    /\ q.res.body.data.wifi = Bool(FALSE)

-----------------------------------------------------------------------------
(* Claims about the telemetry views, checked under SpecViews *)

\* the schema of a JSON object: its property paths, at every level
RECURSIVE Paths(_)
Paths(obj) ==
    UNION { IF IsPrim(obj[k]) THEN {<<k>>}
            ELSE {<<k>>} \cup { <<k>> \o p : p \in Paths(obj[k]) }
            : k \in DOMAIN obj }

\* C3: every answer of getHealthData is a success with one and the same
\* schema, the schema of its offline answer, at every level, whether the
\* upstream reads succeed or fail and whether the estimate is valid or rejected.
C3_HealthViewSchemaInvariant ==
    call.op = "getHealthData" =>
        /\ res.status = 200
        /\ Paths(res.body) = Paths([data |-> HealthOfflineResponse])

\* C4: the heart rate getHealthData reports is health.bpm unless that is
\* null/undefined, else status.bpm unless that is null/undefined, else 0; so
\* health.bpm = 0 with status.bpm = 75 reports 0.
C4_HeartRateNullishFallback ==
    (call.op = "getHealthData" /\ ~call.failed) =>
        res.body.data.heartRate.bpm =
            HeartRateOf_Nullish(ValOrEmpty(call.health), ValOrEmpty(call.status))

GpsPlaceholder == [valid |-> Bool(FALSE), message |-> Str("GPS signal not available")]
HeartbeatPlaceholder ==
    [valid |-> Bool(FALSE), message |-> Str("Heartbeat data not available")]

\* C5: getCombinedData answers 500 on a transport failure; otherwise 404
\* exactly when the status record is absent, whatever the health record; and
\* with the status record present 200 with the GPS coordinates iff gps_valid
\* is truthy (else the placeholder) and the heartbeat readings iff the health
\* record exists (else the placeholder).
C5_CombinedViewStrict ==
    call.op = "getCombinedData" =>
        /\ call.failed => res.status = 500
        /\ ~call.failed =>
            /\ res.status = 404 <=> call.status = Null
            /\ call.status # Null =>
                /\ res.status = 200
                /\ LET gps == res.body.data.gps
                       heartbeat == res.body.data.heartbeat
                   IN /\ IF Truthy(Get(call.status, "gps_valid"))
                         THEN /\ gps.latitude = Get(call.status, "latitude")
                              /\ gps.longitude = Get(call.status, "longitude")
                              /\ Truthy(gps.valid)
                         ELSE gps = GpsPlaceholder
                      /\ IF call.health # Null
                         THEN /\ "bpm" \in DOMAIN heartbeat
                              /\ "message" \notin DOMAIN heartbeat
                              /\ heartbeat.pulseValue =
                                    Or(Get(call.health, "pulse_value"), Num(0))
                         ELSE heartbeat = HeartbeatPlaceholder

\* the status record is present without a GPS fix and the health record is
\* absent: success with both placeholders
C5_Witness ==
    /\ call.op = "getCombinedData" /\ ~call.failed
    /\ call.status # Null /\ call.health = Null
    /\ ~Truthy(Get(call.status, "gps_valid"))
    /\ res.status = 200
    /\ res.body.data.gps = GpsPlaceholder
    /\ res.body.data.heartbeat = HeartbeatPlaceholder

LatestFields ==
    {"latitude", "longitude", "gps_valid", "wifi_connected", "firebase_ready",
     "timestamp", "last_update"}

\* C10 as stated: getLatestData always answers 200 with the seven fields,
\* every field present upstream overrides its default, and timestamp and
\* last_update are never empty or null.
C10_EveryPresentFieldOverrides ==
    call.op = "getLatestData" =>
        /\ res.status = 200
        /\ LatestFields \subseteq DOMAIN res.body.data
        /\ Truthy(res.body.data.timestamp)
        /\ Truthy(res.body.data.last_update)
        /\ ~call.failed =>
              \A k \in DOMAIN ValOrEmpty(call.status) :
                  res.body.data[k] = call.status[k]

\* C10 amended: as above, except that timestamp and last_update override
\* their defaults only when truthy; an omitted or falsy (0, empty, null) one
\* is replaced by the default (the current time).
C10_LatestViewMerge ==
    call.op = "getLatestData" =>
        /\ res.status = 200
        /\ LatestFields \subseteq DOMAIN res.body.data
        /\ Truthy(res.body.data.timestamp)
        /\ Truthy(res.body.data.last_update)
        /\ call.failed => res.body.data = LatestDefaultData
        /\ ~call.failed =>
              LET data == ValOrEmpty(call.status) IN
              /\ \A k \in DOMAIN data \ {"timestamp", "last_update"} :
                     res.body.data[k] = data[k]
              /\ \A k \in LatestFields \ DOMAIN data :
                     res.body.data[k] = LatestDefaultData[k]
              /\ \A k \in {"timestamp", "last_update"} \cap DOMAIN data :
                     res.body.data[k] =
                         IF Truthy(data[k]) THEN data[k] ELSE LatestDefaultData[k]

\* the upstream record has gps_valid and latitude but no timestamp: the
\* answer carries them and the default timestamp
C10_Witness ==
    /\ call.op = "getLatestData" /\ ~call.failed
    /\ call.status = [gps_valid |-> Bool(TRUE), latitude |-> Num(12)]
    /\ res.body.data.latitude = Num(12)
    /\ res.body.data.gps_valid = Bool(TRUE)
    /\ res.body.data.timestamp = IsoStr(now)
    /\ res.body.data.last_update = Num(now)

-----------------------------------------------------------------------------
(* Claims about saveMeasurement and getWeeklyReport *)

AllReadingsTruthy(body) ==
    \A k \in {"heartRate", "systolic", "diastolic"} :
        k \in DOMAIN body /\ body[k] \notin {Undef, Null, Num(0), Str(""), Bool(FALSE)}

\* C6 (under SpecSave): a save request of an authenticated user with a reading
\* missing or falsy (0 included) is answered 400 and persists nothing; a
\* request is answered 200 exactly when one document, of that user with the
\* request's readings and the current time, was appended to the collection,
\* which happens whenever the readings are all present and the store takes
\* the document; and the collection holds as many documents as requests were
\* accepted and persisted.
C6_SaveValidatesAndPersistsOne ==
    /\ Len(measurements) = saved
    /\ (call.op = "saveMeasurement" /\ call.user # Undef) =>
        /\ ~AllReadingsTruthy(call.body) =>
              res.status = 400 /\ measurements = call.before
        /\ res.status # 200 => measurements = call.before
        /\ res.status = 200 =>
              /\ AllReadingsTruthy(call.body)
              /\ measurements =
                    Append(call.before,
                           [user |-> UserIdOf(call.user),
                            heartRate |-> call.body.heartRate,
                            systolic |-> call.body.systolic,
                            diastolic |-> call.body.diastolic,
                            timestamp |-> DateOf(call.now)])
        /\ (/\ AllReadingsTruthy(call.body)
            /\ call.storeUp
            /\ Truthy(UserIdOf(call.user))
            /\ \A k \in {"heartRate", "systolic", "diastolic"} :
                   call.body[k].t = "number") => res.status = 200

\* heartRate = 0 with valid systolic and diastolic is rejected, the collection
\* keeping the document saved before
C6_Witness ==
    /\ call.op = "saveMeasurement" /\ call.user = User1
    /\ call.body = Reading(0, 120, 80)
    /\ res.status = 400
    /\ Len(measurements) = 1 /\ saved = 1

\* C7 (under SpecSave): saveMeasurement and getWeeklyReport answer a request
\* without a user identity (no user object, or one with neither _id nor id)
\* with 400, leaving the collection alone.
C7_NoIdentityIsClientError ==
    (/\ call.op \in {"saveMeasurement", "getWeeklyReport"}
     /\ (call.user = Undef \/ ~Truthy(UserIdOf(call.user)))) =>
        res.status = 400 /\ measurements = call.before

RECURSIVE SumOf(_, _)
SumOf(idx, field) ==
    IF idx = {} THEN 0
    ELSE LET i == CHOOSE i \in idx : TRUE
         IN measurements[i][field].v + SumOf(idx \ {i}, field)

\* the number avg is sum / n
IsMean(avg, sum, n) ==
    IF avg.t = "number" THEN avg.v * n = sum
    ELSE avg.v[1] * n = avg.v[2] * sum

DayOf(ms) == ms \div DayMs

\* the report answered is the per-day report of the documents `window`
ReportOf(window) ==
    LET entries == res.body.v
        days == { DayOf(measurements[i].timestamp.v) : i \in window }
    IN /\ { e._id.v : e \in { entries[j] : j \in 1..Len(entries) } } = days
       /\ Len(entries) = Cardinality(days)
       /\ \A j \in 1..Len(entries) :
             LET e == entries[j]
                 ofDay == { i \in window :
                              DayOf(measurements[i].timestamp.v) = e._id.v }
             IN /\ IsMean(e.avgHeartRate, SumOf(ofDay, "heartRate"), Cardinality(ofDay))
                /\ IsMean(e.avgSystolic, SumOf(ofDay, "systolic"), Cardinality(ofDay))
                /\ IsMean(e.avgDiastolic, SumOf(ofDay, "diastolic"), Cardinality(ofDay))
       /\ \A j, k \in 1..Len(entries) : j < k => entries[j]._id.v < entries[k]._id.v

\* C8 (under SpecReport): the report has exactly one entry per calendar day
\* on which the requesting user has a measurement among those the query
\* selects (timestamp >= six days before the request), none for other days;
\* each entry's averages are the means of that day's selected measurements of
\* that user only; the entries ascend by date.
C8_ReportGroupsByDay ==
    (call.op = "getWeeklyReport" /\ res.status = 200) =>
        ReportOf({ i \in 1..Len(measurements) :
                     /\ measurements[i].user = UserIdOf(call.user)
                     /\ measurements[i].timestamp.v >= call.now - WindowDays * DayMs })

\* the reference data: d0 with 72/121/81 before d1 with 80/125/85
C8_Witness ==
    /\ call.op = "getWeeklyReport" /\ res.status = 200 /\ call.user = User1
    /\ Len(measurements) = 3
    /\ Len(res.body.v) = 2
    /\ LET d0 == res.body.v[1]
           d1 == res.body.v[2]
       IN /\ d0.avgHeartRate = Num(72) /\ d0.avgSystolic = Num(121)
          /\ d0.avgDiastolic = Num(81)
          /\ d1.avgHeartRate = Num(80) /\ d1.avgSystolic = Num(125)
          /\ d1.avgDiastolic = Num(85)
          /\ d1._id.v = d0._id.v + 1

\* C9 (under SpecReport): the report is the per-day report of all the user's
\* measurements whose calendar day is one of today-6 .. today, whatever their
\* time of day and the time of day of the request, and of none before today-6.
C9_WindowIsSevenCalendarDays ==
    (call.op = "getWeeklyReport" /\ res.status = 200) =>
        ReportOf({ i \in 1..Len(measurements) :
                     /\ measurements[i].user = UserIdOf(call.user)
                     /\ DayOf(measurements[i].timestamp.v)
                            >= DayOf(call.now) - WindowDays })

-----------------------------------------------------------------------------
(* Claims about the Reading Validator, checked under SpecValidate *)

\* the field k of the record is a number within lo..hi
InRange(record, k, lo, hi) ==
    k \in DOMAIN record /\ record[k].t = "number"
        /\ record[k].v >= lo /\ record[k].v <= hi

\* C11: for every health record that exists validateHeartRate answers 200
\* (a missing field raises no error) with the overall verdict true iff all
\* four sub-checks pass, where pulseValue passes iff pulse_value is in
\* [500, 8000], heartRate iff bpm is in [30, 220] and valid_bpm is set,
\* waveform iff it has at least 10 samples, and signalQuality equals the
\* pulseValue check; a missing or empty waveform makes the verdict false.
C11_VerdictIsConjunctionOfChecks ==
    (call.op = "validateHeartRate" /\ ~call.failed /\ call.health # Null) =>
        LET d == call.health
            v == res.body.validation
            pulseOk == InRange(d, "pulse_value", 500, 8000)
            heartOk == InRange(d, "bpm", 30, 220) /\ Truthy(Get(d, "valid_bpm"))
            waveOk == "waveform" \in DOMAIN d /\ Len(d.waveform.v) >= 10
        IN /\ res.status = 200
           /\ DOMAIN v = {"pulseValue", "heartRate", "waveform", "signalQuality"}
           /\ v.pulseValue.valid = Bool(pulseOk)
           /\ Truthy(v.heartRate.valid) <=> heartOk
           /\ Truthy(v.waveform.valid) <=> waveOk
           /\ v.signalQuality.valid = v.pulseValue.valid
           /\ res.body.valid = Bool(pulseOk /\ heartOk /\ waveOk)
           /\ res.body.valid = Bool(\A k \in DOMAIN v : Truthy(v[k].valid))
           /\ ("waveform" \notin DOMAIN d \/ d.waveform = Waveform(0)) =>
                 res.body.valid = Bool(FALSE)

\* a record at the limits of every range passes
C11_Witness ==
    /\ call.op = "validateHeartRate" /\ ~call.failed
    /\ call.health = Spread(GoodHealthRecord, [bpm |-> Num(220)])
    /\ res.status = 200
    /\ res.body.valid = Bool(TRUE)

-----------------------------------------------------------------------------
(* Claims about the helper functions, checked under SpecHelpers *)

\* C12: the classifiers answer every input; the status is No Signal for a
\* falsy input, Slow below 60, Normal in [60, 100], Elevated in (100, 140]
\* and High above 140; the zone is No Signal for a falsy input, Resting
\* below 60, Normal below 100, Light Exercise below 140, Moderate Exercise
\* below 170 and Intense Exercise otherwise; the status is No Signal exactly
\* when the zone is, and 0, null and undefined are answered alike.
C12_ClassifiersFollowThresholds ==
    call.op = "classify" =>
        LET bpm == call.bpm
            falsy == bpm.t # "number" \/ bpm.v = 0
            n == IF falsy THEN 0 ELSE bpm.v
            status == res.body.status
            zone == res.body.zone
        IN /\ status \in {Str("No Signal"), Str("Slow"), Str("Normal"),
                          Str("Elevated"), Str("High")}
           /\ zone \in {Str("No Signal"), Str("Resting"), Str("Normal"),
                        Str("Light Exercise"), Str("Moderate Exercise"),
                        Str("Intense Exercise")}
           /\ (status = Str("No Signal")) <=> falsy
           /\ (status = Str("Slow")) <=> (~falsy /\ n < 60)
           /\ (status = Str("Normal")) <=> (~falsy /\ n >= 60 /\ n <= 100)
           /\ (status = Str("Elevated")) <=> (~falsy /\ n > 100 /\ n <= 140)
           /\ (status = Str("High")) <=> (~falsy /\ n > 140)
           /\ (zone = Str("No Signal")) <=> falsy
           /\ (zone = Str("Resting")) <=> (~falsy /\ n < 60)
           /\ (zone = Str("Normal")) <=> (~falsy /\ n >= 60 /\ n < 100)
           /\ (zone = Str("Light Exercise")) <=> (~falsy /\ n >= 100 /\ n < 140)
           /\ (zone = Str("Moderate Exercise")) <=> (~falsy /\ n >= 140 /\ n < 170)
           /\ (zone = Str("Intense Exercise")) <=> (~falsy /\ n >= 170)
           /\ (status = Str("No Signal")) <=> (zone = Str("No Signal"))
           /\ bpm \in {Num(0), Null, Undef} =>
                 status = getHeartRateStatus(Num(0)) /\ zone = getHeartRateZone(Num(0))

\* 100 is the last Normal status and the first Light Exercise zone
C12_Witness ==
    /\ call.op = "classify" /\ call.bpm = Num(100)
    /\ res.body.status = Str("Normal")
    /\ res.body.zone = Str("Light Exercise")

\* C13 as stated: for every heart rate h and every fixed profile the
\* systolic estimate for h + 10 is strictly greater than the one for h.
C13_SystolicStrictlyIncreasing ==
    call.op = "predictBloodPressure" =>
        res.body.plus10.systolic.v > res.body.at.systolic.v

\* whether predictBloodPressure accepts the heart rate n
Accepted(n) == n >= 30 /\ n <= 220

\* C13, amended: for every fixed profile the systolic estimate for h + 10
\* is strictly greater than the one for h whenever h + 10 lies in the
\* accepted range [30, 220], by 5 when h is accepted too; when h + 10 is
\* above 220 its estimate is the rejected 0, which is not greater.
C13_SystolicIncreasingWithinRange ==
    (call.op = "predictBloodPressure" /\ call.heartRate.t = "number") =>
        LET h == call.heartRate.v
            at == res.body.at
            plus10 == res.body.plus10
        IN /\ at.valid = Bool(Accepted(h))
           /\ plus10.valid = Bool(Accepted(h + 10))
           /\ Accepted(h + 10) => plus10.systolic.v > at.systolic.v
           /\ (Accepted(h) /\ Accepted(h + 10)) =>
                 plus10.systolic.v = at.systolic.v + 5
           /\ ~Accepted(h + 10) =>
                 plus10.systolic.v = 0 /\ plus10.systolic.v <= at.systolic.v

\* two accepted heart rates 10 apart, the estimate rising from one to the
\* other
C13_Witness ==
    /\ call.op = "predictBloodPressure" /\ call.heartRate = Num(210)
    /\ call.profile.age = Num(63)
    /\ res.body.at.valid = Bool(TRUE) /\ res.body.plus10.valid = Bool(TRUE)
    /\ res.body.plus10.systolic.v > res.body.at.systolic.v

-----------------------------------------------------------------------------
(* Claims about concurrent status requests, checked under SpecConc and   *)
(* SpecOverlap                                                           *)

RECURSIVE SumReads(_)
\* the upstream reads issued by the requests of the slots 1..n
SumReads(n) == IF n = 0 THEN 0 ELSE req[n].reads + SumReads(n - 1)

\* the number of requests started
Started == Cardinality({r \in Procs : req[r].pc # "idle"})

\* the shape of a status payload: four fields, the three flags boolean
StatusShaped(data) ==
    /\ DOMAIN data = {"wifi", "gps", "heartbeat", "lastUpdate"}
    /\ \A k \in {"wifi", "gps", "heartbeat"} : data[k].t = "boolean"
    /\ data.lastUpdate.t = "isostring"

\* C14: under any interleaving of the started status requests each request
\* issues at most one upstream read, and only on a cache miss, so the reads
\* number at most the requests; a request has no response while it awaits
\* its read and exactly one, a success carrying a status payload, once it
\* completes; and the cache holds nothing or a payload of the one shape
\* {wifi, gps, heartbeat, lastUpdate} with boolean flags.
C14_AtMostOneReadPerRequest ==
    /\ \A r \in Procs :
          /\ req[r].reads <= 1
          /\ req[r].pc = "idle" => req[r].reads = 0 /\ req[r].res = NoRes
          /\ req[r].pc = "await" => req[r].reads = 1 /\ req[r].res = NoRes
          /\ req[r].pc = "done" =>
                /\ req[r].reads = (IF req[r].hit THEN 0 ELSE 1)
                /\ req[r].res.status = 200
                /\ DOMAIN req[r].res.body = {"data"}
                /\ StatusShaped(req[r].res.body.data)
    /\ SumReads(NReq) <= Started
    /\ Started <= NReq
    /\ statusCache.data # Null =>
          StatusShaped(statusCache.data) /\ statusCache.timestamp.t = "number"

\* every request has completed, two of them having read upstream while the
\* other was still awaiting its own read, one of the two having failed
C14_Witness ==
    /\ \A r \in Procs : req[r].pc = "done"
    /\ SumReads(NReq) >= 2
    /\ \E r, q \in Procs :
          /\ r # q /\ ~req[r].hit /\ ~req[q].hit
          /\ req[r].now = req[q].now
          /\ req[r].failed /\ ~req[q].failed
          /\ req[r].res.body.data.wifi # req[q].res.body.data.wifi

\* C15: a request answered from the cache at time t returns a payload whose
\* upstream read was issued, or whose offline status was synthesized, no
\* earlier than t - ttl, whatever the interleaving and the latency of the
\* reads, also when the entry was written by a request that started before
\* the writer of the entry it replaced.
C15_HitServesPayloadWithinTtl ==
    /\ \A r \in Procs :
          (req[r].pc = "done" /\ req[r].hit) =>
              /\ req[r].src >= req[r].now - ttl
              /\ req[r].src <= req[r].now
    /\ statusCache.data # Null =>
          /\ statusCache.data = fill.data
          /\ statusCache.timestamp.v <= fill.issued
          /\ fill.issued <= now

\* a hit on an entry written by a request that started earlier and completed
\* later than the one whose newer entry it overwrote
C15_Witness ==
    /\ fill.kind = "fresh" /\ fill.overwroteNewer
    /\ \E r \in Procs :
          /\ req[r].pc = "done" /\ req[r].hit
          /\ req[r].src = fill.issued
          /\ req[r].now > fill.at
          /\ req[r].res.body.data = fill.data

=============================================================================
